---- MODULE Spec2Model ----
(***************************************************************************)
(* Layer registry and layer chain builder of docker-diff-scanner.          *)
(*                                                                         *)
(* Strings are sequences of one-character strings, so that strings.Split   *)
(* and strconv.ParseInt are computed on the characters.  Pointers to       *)
(* ContainerLayer values are indices into the sequence heap; 0 is nil.     *)
(* A layer directory under the docker root is fixed the first time the run *)
(* visits it and stays as it is (the tool never writes to the disk).       *)
(***************************************************************************)
EXTENDS Integers, Sequences, FiniteSets, TLC

\* number of entries of <fsPath>/containers/ that GetAllContainers walks
MaxContainers == 2
\* longest list of folder names handed to ProcessDiffFolders
MaxFolders == 3

----------------------------------------------------------------------------
\* Values

Nil == "nil"                  \* a nil error
NilPtr == 0                   \* a nil *ContainerLayer
NoContainer == 0              \* a nil *Container
\* What a read of a file yields is a sequence: the characters of its contents,
\* or one of the following, which no contents equal
Unread == <<"unread">>        \* a file the run has not looked at yet
ENOENT == <<"ENOENT">>        \* the file does not exist
EACCES == <<"EACCES">>        \* the file exists and cannot be read

ShaPrefix == <<"s", "h", "a", "2", "5", "6">>
Sha(h) == ShaPrefix \o <<":">> \o h

\* the digests that have a directory under layerdb/sha256
Hex == {<<"a">>, <<"b">>}

\* contents a "parent" file of a layer can hold
TwoColons == Sha(<<"a">>) \o <<":">> \o <<"b">>
NoColon == <<"a">>
LayerParentContents == {Sha(h) : h \in Hex} \cup {NoColon, TwoColons}
\* contents a "parent" file of a container can hold
ContainerParentContents == {NoColon, TwoColons} \cup {Sha(h) : h \in Hex}
\* contents a "size" file can hold
SizeContents == {<<>>, <<"7">>, <<"x">>}
\* contents of the cache-id file of digest h
CacheContents(h) == {<<"k">> \o h}

\* the files of one layer directory
NoDir == [cache |-> ENOENT, size |-> ENOENT, parent |-> ENOENT]
Unseen == [cache |-> Unread, size |-> Unread, parent |-> Unread]
LayerDirs(h) ==
  [cache : {ENOENT} \cup CacheContents(h),
   size : {ENOENT} \cup SizeContents,
   parent : {ENOENT, EACCES} \cup LayerParentContents]

\* Name of the record docker inspect returns for the n-th container
ContainerNames == <<"web", "api", "db", "job">>
Name(container) == ContainerNames[container]

----------------------------------------------------------------------------
\* Pure functions

\* strings.Split(s, ":")
RECURSIVE Split(_)
Split(s) ==
  IF \A i \in 1..Len(s) : s[i] # ":"
  THEN <<s>>
  ELSE LET i == CHOOSE k \in 1..Len(s) :
                  s[k] = ":" /\ \A j \in 1..(k - 1) : s[j] # ":"
       IN <<SubSeq(s, 1, i - 1)>> \o Split(SubSeq(s, i + 1, Len(s)))

Digits == <<"0", "1", "2", "3", "4", "5", "6", "7", "8", "9">>
IsDigit(ch) == \E d \in 1..10 : Digits[d] = ch
DigitVal(ch) == (CHOOSE d \in 1..10 : Digits[d] = ch) - 1

RECURSIVE Unsigned(_)
Unsigned(s) == IF s = <<>> THEN 0
               ELSE Unsigned(SubSeq(s, 1, Len(s) - 1)) * 10 + DigitVal(s[Len(s)])

\* strconv.ParseInt(s, 10, 64) for the sizes of the model (no overflow)
ParseInt(s) ==
  LET signed == s # <<>> /\ s[1] \in {"+", "-"}
      body == IF signed THEN Tail(s) ELSE s
  IN IF body = <<>> \/ \E i \in 1..Len(body) : ~IsDigit(body[i])
     THEN [val |-> 0, err |-> "ParseError"]
     ELSE [val |-> IF signed /\ s[1] = "-" THEN 0 - Unsigned(body) ELSE Unsigned(body),
           err |-> Nil]

\* the first lines of NewContainerLayer: "sha256:hash" -> "hash"
NormalizeHashRaw(sha256hash) == sha256hash
NormalizeHash(sha256hash) ==
  LET bits == Split(sha256hash)
  IN IF Len(bits) = 2 THEN bits[2] ELSE sha256hash

----------------------------------------------------------------------------
\* NewContainerLayer

\* the branch of NewContainerLayer that finds the digest in ExistingLayers
HitLayerNoCount(value, container) ==
  [value EXCEPT !.Containers = IF container = NoContainer THEN @
                               ELSE Append(@, Name(container))]
HitLayerAlwaysAppend(value, container) ==
  [value EXCEPT !.SharedCount = @ + 1,
                !.Containers = Append(@, IF container = NoContainer THEN "" ELSE Name(container))]
HitLayer(value, container) ==
  [value EXCEPT !.SharedCount = @ + 1,
                !.Containers = IF container = NoContainer THEN @
                               ELSE Append(@, Name(container))]

\* the ContainerLayer literal of NewContainerLayer
FreshLayerZeroCount(sha256hash, container) ==
  [Hash |-> sha256hash, Size |-> 0, Location |-> <<>>, Parent |-> NilPtr,
   SharedCount |-> 0,
   Containers |-> IF container = NoContainer THEN <<>> ELSE <<Name(container)>>]
FreshLayer(sha256hash, container) ==
  [Hash |-> sha256hash, Size |-> 0, Location |-> <<>>, Parent |-> NilPtr,
   SharedCount |-> 1,
   Containers |-> IF container = NoContainer THEN <<>> ELSE <<Name(container)>>]

\* NewContainerLayer on the heap h and the registry reg; ret is the pointer
\* returned, fresh tells whether the call constructed the node
NewContainerLayerNoLookup(h, reg, sha256hash, container) ==
  LET hash == NormalizeHash(sha256hash)
      p == Len(h) + 1
  IN [heap |-> Append(h, FreshLayer(hash, container)),
      reg |-> [k \in DOMAIN reg \cup {hash} |-> IF k = hash THEN p ELSE reg[k]],
      ret |-> p, fresh |-> TRUE]
NewContainerLayer(h, reg, sha256hash, container) ==
  LET hash == NormalizeHash(sha256hash)
  IN IF hash \in DOMAIN reg
     THEN [heap |-> [h EXCEPT ![reg[hash]] = HitLayer(h[reg[hash]], container)],
           reg |-> reg, ret |-> reg[hash], fresh |-> FALSE]
     ELSE LET p == Len(h) + 1
          IN [heap |-> Append(h, FreshLayer(hash, container)),
              reg |-> [k \in DOMAIN reg \cup {hash} |-> IF k = hash THEN p ELSE reg[k]],
              ret |-> p, fresh |-> TRUE]

----------------------------------------------------------------------------
\* ContainerLayer methods

\* Init, the lines that turn the contents of the cache-id file into the id
\* GetMntPath is called with; the Location is kept as that id
CacheID(contents) ==
  LET bits == Split(contents)
  IN IF Len(bits) = 2 THEN bits[2] ELSE contents

\* ReadSize on the layer value, given what reading its size file yields
ReadSize(layer, contents) ==
  IF contents \in {ENOENT, EACCES}
  THEN [layer |-> layer, err |-> "IOError"]
  ELSE LET sentinel == IF contents = <<>> THEN [layer EXCEPT !.Size = -100] ELSE layer
           parsed == ParseInt(contents)
       IN IF parsed.err # Nil
          THEN [layer |-> sentinel, err |-> parsed.err]
          ELSE [layer |-> [sentinel EXCEPT !.Size = parsed.val], err |-> Nil]

\* GetParent of the layer at pointer c up to the call of c.Parent.Init(),
\* given what probing and reading its parent file yields.  child is the
\* layer whose Init is called next (nil when GetParent returns before);
\* call is the NewContainerLayer call made, if any.
GetParentRegisterFirst(h, reg, c, contents) ==
  IF contents = ENOENT
  THEN [heap |-> [h EXCEPT ![c].Parent = NilPtr], reg |-> reg, err |-> Nil,
        child |-> NilPtr, call |-> <<>>]
  ELSE IF contents = EACCES
  THEN [heap |-> h, reg |-> reg, err |-> "IOError", child |-> NilPtr, call |-> <<>>]
  ELSE LET bits == Split(contents)
           r == NewContainerLayer(h, reg, contents, NoContainer)
       IN IF Len(bits) # 2
          THEN [heap |-> r.heap, reg |-> r.reg, err |-> "MalformedIdentifier",
                child |-> NilPtr, call |-> <<>>]
          ELSE [heap |-> [r.heap EXCEPT ![c].Parent = r.ret], reg |-> r.reg,
                err |-> Nil, child |-> r.ret,
                call |-> <<[arg |-> bits[2], container |-> NoContainer,
                            ret |-> r.ret, fresh |-> r.fresh]>>]
GetParentAssignAfterInit(h, reg, c, contents) ==
  IF contents = ENOENT
  THEN [heap |-> [h EXCEPT ![c].Parent = NilPtr], reg |-> reg, err |-> Nil,
        child |-> NilPtr, call |-> <<>>]
  ELSE IF contents = EACCES
  THEN [heap |-> h, reg |-> reg, err |-> "IOError", child |-> NilPtr, call |-> <<>>]
  ELSE LET bits == Split(contents)
       IN IF Len(bits) # 2
          THEN [heap |-> h, reg |-> reg, err |-> "MalformedIdentifier",
                child |-> NilPtr, call |-> <<>>]
          ELSE LET r == NewContainerLayer(h, reg, bits[2], NoContainer)
               IN [heap |-> r.heap, reg |-> r.reg,
                   err |-> Nil, child |-> r.ret,
                   call |-> <<[arg |-> bits[2], container |-> NoContainer,
                               ret |-> r.ret, fresh |-> r.fresh]>>]
GetParentFirstBit(h, reg, c, contents) ==
  IF contents = ENOENT
  THEN [heap |-> [h EXCEPT ![c].Parent = NilPtr], reg |-> reg, err |-> Nil,
        child |-> NilPtr, call |-> <<>>]
  ELSE IF contents = EACCES
  THEN [heap |-> h, reg |-> reg, err |-> "IOError", child |-> NilPtr, call |-> <<>>]
  ELSE LET bits == Split(contents)
       IN IF Len(bits) # 2
          THEN [heap |-> h, reg |-> reg, err |-> "MalformedIdentifier",
                child |-> NilPtr, call |-> <<>>]
          ELSE LET r == NewContainerLayer(h, reg, bits[1], NoContainer)
               IN [heap |-> [r.heap EXCEPT ![c].Parent = r.ret], reg |-> r.reg,
                   err |-> Nil, child |-> r.ret,
                   call |-> <<[arg |-> bits[1], container |-> NoContainer,
                               ret |-> r.ret, fresh |-> r.fresh]>>]
GetParent(h, reg, c, contents) ==
  IF contents = ENOENT
  THEN [heap |-> [h EXCEPT ![c].Parent = NilPtr], reg |-> reg, err |-> Nil,
        child |-> NilPtr, call |-> <<>>]
  ELSE IF contents = EACCES
  THEN [heap |-> h, reg |-> reg, err |-> "IOError", child |-> NilPtr, call |-> <<>>]
  ELSE LET bits == Split(contents)
       IN IF Len(bits) # 2
          THEN [heap |-> h, reg |-> reg, err |-> "MalformedIdentifier",
                child |-> NilPtr, call |-> <<>>]
          ELSE LET r == NewContainerLayer(h, reg, bits[2], NoContainer)
               IN [heap |-> [r.heap EXCEPT ![c].Parent = r.ret], reg |-> r.reg,
                   err |-> Nil, child |-> r.ret,
                   call |-> <<[arg |-> bits[2], container |-> NoContainer,
                               ret |-> r.ret, fresh |-> r.fresh]>>]

----------------------------------------------------------------------------
\* State

VARIABLES
  heap,            \* the ContainerLayer values allocated so far
  ExistingLayers,  \* the registry: digest -> pointer
  disk,            \* the layer directories the run has visited
  idx,             \* position of GetAllContainers in the directory listing
  cur,             \* the Container whose Init is running, as <<record>>, or <<>>
  stack,           \* the active ContainerLayer.Init invocations, innermost last
  ret,             \* the error returned by the Init invocation that ended last
  containers,      \* the slice GetAllContainers has appended to
  skipped,         \* the entries GetAllContainers has logged and skipped
  calls,           \* history: the NewContainerLayer calls made, in order
  last,            \* history: what the last step did
  reads,           \* history: per digest, how often Init read its size file
                   \* and probed its parent file
  \* main of filesystem.go
  mpc,             \* where main is, or how it ended
  lsDiff,          \* what "ls" prints for the diff directory
  mainContainers,  \* the slice containers of main: the container ids
  allContainers,   \* the containers main has stored, in listing order
  diffFolders,     \* the filtered diff folders
  mi,              \* index of the loop main is in
  hasUnusedLayers, \* the flag of the orphan loop
  out,             \* the lines main has printed so far
  \* two calls of NewContainerLayer taken apart into their map accesses
  threads,         \* per caller: its position in NewContainerLayer and locals
  sequential       \* whether the second call starts after the first returned

chainVars == <<heap, ExistingLayers, idx, cur, stack, ret, containers, skipped,
               calls, last, reads>>
parVars == <<threads, sequential>>
mainVars == <<mpc, lsDiff, mainContainers, allContainers, diffFolders, mi,
              hasUnusedLayers, out>>
vars == <<heap, ExistingLayers, disk, idx, cur, stack, ret, containers, skipped,
          calls, last, reads, mpc, lsDiff, mainContainers, allContainers,
          diffFolders, mi, hasUnusedLayers, out, threads, sequential>>

NoEvent == [op |-> "none", self |-> NilPtr, cache |-> Unread, size |-> Unread,
            parent |-> Unread, sizeErr |-> Nil, parentErr |-> Nil, err |-> Nil,
            returned |-> FALSE, details |-> "none"]

\* the state before GetAllContainers starts
ChainInit ==
  /\ heap = <<>>
  /\ ExistingLayers = <<>>
  /\ disk = [h \in Hex |-> Unseen]
  /\ idx = 1
  /\ cur = <<>>
  /\ stack = <<>>
  /\ ret = Nil
  /\ containers = <<>>
  /\ skipped = <<>>
  /\ calls = <<>>
  /\ last = NoEvent
  /\ reads = <<>>

\* main of filesystem.go before its first line, given the listing of the
\* diff directory
MainInit(listing) ==
  /\ mpc = "start"
  /\ lsDiff = listing
  /\ mainContainers = <<>>
  /\ allContainers = <<>>
  /\ diffFolders = <<>>
  /\ mi = 1
  /\ hasUnusedLayers = FALSE
  /\ out = <<>>

\* the callers of NewContainerLayer
Threads == {1, 2}
NoCall == [pc |-> "idle", hash |-> <<>>, container |-> NoContainer,
           value |-> NilPtr, ret |-> NilPtr]
\* no call of NewContainerLayer is taken apart
ParInit == threads = [t \in Threads |-> NoCall]

\* the run of GetAllContainers; main of filesystem.go is another program
Init ==
  /\ ChainInit
  /\ MainInit(<<>>)
  /\ ParInit
  /\ sequential = TRUE

\* the directory layerdb/sha256/<hash> as the run finds it: the one seen
\* before, or any of LayerDirs on first access; a hash that is not a digest
\* of the layer store has no directory, hence no files
Dirs(hash) ==
  IF hash \notin Hex THEN {NoDir}
  ELSE IF disk[hash] = Unseen THEN LayerDirs(hash) ELSE {disk[hash]}
Seen(hash, dir) == IF hash \in Hex THEN [disk EXCEPT ![hash] = dir] ELSE disk
\* the directory of a digest in the current state
DirOf(hash) == IF hash \in Hex THEN disk[hash] ELSE NoDir

IsErrno(v) == v \in {ENOENT, EACCES}
Elems(seq) == {seq[i] : i \in 1..Len(seq)}
Top == stack[Len(stack)]
Pop == SubSeq(stack, 1, Len(stack) - 1)

----------------------------------------------------------------------------
\* Actions

\* the error with which Container.Init returns before it reaches
\* NewContainerLayer, nil if it reaches it: GetContainerDetails, GetCOWSize
\* and the read of the parent file are tried in this order
ContainerInitErrIgnoreNotFound(details, cow, parent) ==
  IF details = "IOError" THEN details
  ELSE IF cow # "ok" THEN cow
  ELSE IF IsErrno(parent) THEN "IOError"
  ELSE Nil
ContainerInitErr(details, cow, parent) ==
  IF details # "ok" THEN details
  ELSE IF cow # "ok" THEN cow
  ELSE IF IsErrno(parent) THEN "IOError"
  ELSE Nil

\* the read counts after an Init of digest hash that read the size file
\* (size) and probed the parent file (parent)
Counted(hash, size, parent) ==
  LET old == IF hash \in DOMAIN reads THEN reads[hash] ELSE [size |-> 0, parent |-> 0]
      new == [size |-> old.size + (IF size THEN 1 ELSE 0),
              parent |-> old.parent + (IF parent THEN 1 ELSE 0)]
  IN [k \in DOMAIN reads \cup {hash} |-> IF k = hash THEN new ELSE reads[k]]

\* Container.Init of the next directory entry, up to the call of
\* c.ParentChain.Init(): GetContainerDetails, GetCOWSize and GetParentLayer
\* through NewContainerLayer.  details is what docker inspect yields,
\* cow whether the mount folder can be measured, parent what reading the
\* container's parent file yields.
ContainerInit ==
  /\ idx <= MaxContainers
  /\ cur = <<>>
  /\ stack = <<>>
  /\ UNCHANGED <<mainVars, parVars>>
  /\ \E details \in {"IOError", "NotFound", "ok"}, cow \in {"IOError", "ok"},
        parent \in {ENOENT} \cup ContainerParentContents :
       LET err == ContainerInitErr(details, cow, parent)
       IN IF err # Nil
          THEN /\ skipped' = Append(skipped, idx)
               /\ idx' = idx + 1
               /\ last' = [NoEvent EXCEPT !.op = "ContainerInit", !.err = err,
                                          !.returned = TRUE, !.details = details]
               /\ UNCHANGED <<heap, ExistingLayers, disk, cur, stack, ret,
                              containers, calls, reads>>
          ELSE LET r == NewContainerLayer(heap, ExistingLayers, parent, idx)
               IN /\ heap' = r.heap
                  /\ ExistingLayers' = r.reg
                  /\ calls' = Append(calls, [arg |-> parent, container |-> idx,
                                             ret |-> r.ret, fresh |-> r.fresh])
                  /\ cur' = <<[Hash |-> idx, Name |-> Name(idx),
                               ParentChain |-> r.ret]>>
                  /\ stack' = <<[self |-> r.ret, pc |-> "start"]>>
                  /\ last' = [NoEvent EXCEPT !.op = "ContainerInit", !.details = details]
                  /\ UNCHANGED <<disk, idx, ret, containers, skipped, reads>>

\* the invocation of Init on top of the stack ends with error e
InitEnds(h, reg, d, e, ev) ==
  /\ reads' = Counted(heap[Top.self].Hash, ev.size # Unread, ev.parent # Unread)
  /\ heap' = h
  /\ ExistingLayers' = reg
  /\ disk' = d
  /\ stack' = Pop
  /\ ret' = e
  /\ last' = [ev EXCEPT !.err = e, !.returned = TRUE]
  /\ UNCHANGED <<idx, cur, containers, skipped, calls>>

\* ContainerLayer.Init of the layer on top of the stack, from its first
\* line to its return or to the call of c.Parent.Init() inside GetParent
LayerInit ==
  /\ stack # <<>>
  /\ Top.pc = "start"
  /\ UNCHANGED <<mainVars, parVars>>
  /\ LET c == Top.self
         hash == heap[c].Hash
     IN \E dir \in Dirs(hash) :
          LET d == Seen(hash, dir)
              ev1 == [NoEvent EXCEPT !.op = "Init", !.self = c, !.cache = dir.cache]
              h1 == [heap EXCEPT ![c].Location = CacheID(dir.cache)]
              rs == ReadSize(h1[c], dir.size)
              h2 == [h1 EXCEPT ![c] = rs.layer]
              ev2 == [ev1 EXCEPT !.size = dir.size, !.sizeErr = rs.err]
              gp == GetParent(h2, ExistingLayers, c, dir.parent)
              ev3 == [ev2 EXCEPT !.parent = dir.parent, !.parentErr = gp.err]
          IN IF IsErrno(dir.cache)
             THEN InitEnds(heap, ExistingLayers, d, "IOError", ev1)
             ELSE IF heap[c].Parent # NilPtr
             THEN InitEnds(h1, ExistingLayers, d, Nil, ev1)
             ELSE IF rs.err # Nil
             THEN InitEnds(h2, ExistingLayers, d, rs.err, ev2)
             ELSE IF gp.child = NilPtr
             THEN \* c.GetParent() : the error is dropped
                  InitEnds(gp.heap, gp.reg, d, Nil, ev3)
             ELSE /\ heap' = gp.heap
                  /\ ExistingLayers' = gp.reg
                  /\ disk' = d
                  /\ calls' = calls \o gp.call
                  /\ stack' = Append([stack EXCEPT ![Len(stack)].pc = "wait"],
                                     [self |-> gp.child, pc |-> "start"])
                  /\ last' = ev3
                  /\ reads' = Counted(hash, TRUE, TRUE)
                  /\ UNCHANGED <<idx, cur, ret, containers, skipped>>

\* c.Parent.Init() has returned into GetParent, which returns nil whatever
\* the error was; Init then returns nil
LayerInitReturnStuck ==
  /\ stack # <<>>
  /\ Top.pc = "wait"
  /\ UNCHANGED <<mainVars, parVars>>
  /\ ret' = Nil
  /\ last' = [NoEvent EXCEPT !.op = "InitReturn", !.self = Top.self, !.returned = TRUE]
  /\ UNCHANGED <<heap, ExistingLayers, disk, idx, cur, containers, skipped, calls,
                 reads, stack>>
LayerInitReturn ==
  /\ stack # <<>>
  /\ Top.pc = "wait"
  /\ UNCHANGED <<mainVars, parVars>>
  /\ stack' = Pop
  /\ ret' = Nil
  /\ last' = [NoEvent EXCEPT !.op = "InitReturn", !.self = Top.self, !.returned = TRUE]
  /\ UNCHANGED <<heap, ExistingLayers, disk, idx, cur, containers, skipped, calls,
                 reads>>

\* c.ParentChain.Init() has returned into GetParentLayer: Container.Init
\* returns its error, and GetAllContainers skips or appends the container
ContainerInitReturnAbort ==
  /\ cur # <<>>
  /\ stack = <<>>
  /\ UNCHANGED <<mainVars, parVars>>
  /\ IF ret # Nil
     THEN skipped' = Append(skipped, idx) /\ UNCHANGED containers
     ELSE containers' = Append(containers, cur[1]) /\ UNCHANGED skipped
  /\ cur' = <<>>
  /\ idx' = IF ret # Nil THEN MaxContainers + 1 ELSE idx + 1
  /\ last' = [NoEvent EXCEPT !.op = "ContainerInitReturn", !.err = ret, !.returned = TRUE]
  /\ UNCHANGED <<heap, ExistingLayers, disk, stack, ret, calls, reads>>
ContainerInitReturn ==
  /\ cur # <<>>
  /\ stack = <<>>
  /\ UNCHANGED <<mainVars, parVars>>
  /\ IF ret # Nil
     THEN skipped' = Append(skipped, idx) /\ UNCHANGED containers
     ELSE containers' = Append(containers, cur[1]) /\ UNCHANGED skipped
  /\ cur' = <<>>
  /\ idx' = idx + 1
  /\ last' = [NoEvent EXCEPT !.op = "ContainerInitReturn", !.err = ret, !.returned = TRUE]
  /\ UNCHANGED <<heap, ExistingLayers, disk, stack, ret, calls, reads>>

Next == ContainerInit \/ LayerInit \/ LayerInitReturn \/ ContainerInitReturn

Spec == Init /\ [][Next]_vars

\* the run of GetAllContainers goes on: it is one goroutine, and every
\* step of the model is a file read or a computation that ends
SpecLive == Init /\ [][Next]_vars /\ WF_vars(Next)

----------------------------------------------------------------------------
\* main of filesystem.go, with the overlay2 plugin

\* strings.Split(s, sep) for a separator of one character
RECURSIVE SplitOn(_, _)
SplitOn(s, sep) ==
  IF \A i \in 1..Len(s) : s[i] # sep
  THEN <<s>>
  ELSE LET i == CHOOSE k \in 1..Len(s) :
                  s[k] = sep /\ \A j \in 1..(k - 1) : s[j] # sep
       IN <<SubSeq(s, 1, i - 1)>> \o SplitOn(SubSeq(s, i + 1, Len(s)), sep)

\* strings.HasPrefix(s, prefix)
HasPrefix(s, prefix) ==
  Len(s) >= Len(prefix) /\ SubSeq(s, 1, Len(prefix)) = prefix

\* strings.Replace(s, old, "", -1)
RECURSIVE RemoveAll(_, _)
RemoveAll(s, old) ==
  IF Len(s) < Len(old) THEN s
  ELSE IF SubSeq(s, 1, Len(old)) = old
       THEN RemoveAll(SubSeq(s, Len(old) + 1, Len(s)), old)
       ELSE <<s[1]>> \o RemoveAll(Tail(s), old)

getHashFromSha256(str) ==
  IF HasPrefix(str, ShaPrefix \o <<":">>)
  THEN RemoveAll(str, ShaPrefix \o <<":">>)
  ELSE str

\* the entries ProcessDiffFolders of the overlay2 plugin drops
Bookkeeping == {<<".">>, <<".", ".">>, <<"l">>, <<>>}
ProcessDiffFoldersKeepL(folders) ==
  SelectSeq(folders, LAMBDA folder : folder \notin {<<".">>, <<".", ".">>, <<>>})
ProcessDiffFolders(folders) ==
  SelectSeq(folders, LAMBDA folder : folder \notin Bookkeeping)

\* the loop of getCurrentContainers over the lines of the ls output
CleanContainers(tempContainers) ==
  SelectSeq(tempContainers,
            LAMBDA container : container \notin {<<".">>, <<".", ".">>, <<>>})

\* the id of the n-th entry of layerdb/mounts, and the contents of its
\* mount-id and init-id files
ContainerID(n) == <<"c", Digits[n + 1]>>
MountName(n) == <<"m", Digits[n + 1]>>
InitName(n) == MountName(n) \o <<"-", "i", "n", "i", "t">>

\* the folders the diff directory can hold, in the order ls prints them
FolderUniverse ==
  <<<<"k", "a">>, <<"l">>, MountName(1), InitName(1), <<"o">>>>
\* what ls prints for the names of FolderUniverse at the positions S
RECURSIVE LsLines(_, _, _)
LsLines(names, S, k) ==
  IF k > Len(names) THEN <<>>
  ELSE (IF k \in S THEN names[k] \o <<"\n">> ELSE <<>>) \o LsLines(names, S, k + 1)
LsOutputs == {LsLines(FolderUniverse, S, 1) : S \in SUBSET (1..Len(FolderUniverse))}
\* what ls prints for layerdb/mounts with n containers
LsContainers(n) == LsLines([i \in 1..n |-> ContainerID(i)], 1..n, 1)

\* the folders of the diff directory
Listed == Elems(SplitOn(lsDiff, "\n")) \ {<<>>}

\* calculateFolderSize of the diff folder of layerHash: what du and cut
\* print is parsed; du prints nothing for a folder that is not there
calculateFolderSize(layerHash) ==
  LET trimmed == IF layerHash \in Listed THEN <<"7">> ELSE <<>>
      parsed == ParseInt(trimmed)
  IN IF parsed.err # Nil THEN [size |-> 0, err |-> parsed.err]
     ELSE [size |-> parsed.val, err |-> Nil]

\* the layer directories main can find: it reads no size file
MainLayerDirs(h) ==
  [cache : {ENOENT} \cup CacheContents(h),
   size : {Unread},
   parent : {ENOENT, EACCES} \cup LayerParentContents]
\* the layer store as main can find it, given the directories seen so far
MainDisks ==
  {d \in [Hex -> UNION {MainLayerDirs(h) : h \in Hex}] :
     \A h \in Hex : /\ d[h] \in MainLayerDirs(h)
                    /\ disk[h] # Unseen => d[h] = disk[h]}

\* ContainerParent.init of a new parent with the given Hash on the layer
\* store d: the ContainerParent values it pushes to Parents, itself first.
\* The errors of getCacheID, getCacheDiffSize and getParent are dropped.
\* A parent file that leads back to a layer under init makes the recursion
\* run until the stack is exhausted.
RECURSIVE ParentInit(_, _, _)
ParentInit(d, hash, under) ==
  LET dir == IF hash \in Hex THEN d[hash] ELSE NoDir
      cacheID == IF IsErrno(dir.cache) THEN <<>> ELSE dir.cache
      cp == [Hash |-> hash, IsLeaf |-> FALSE, ParentHash |-> <<>>,
             CacheDiffSize |-> calculateFolderSize(cacheID).size,
             CacheID |-> cacheID]
  IN IF hash \in under
     THEN [list |-> <<>>, overflow |-> TRUE, visited |-> under]
     ELSE IF dir.parent = ENOENT
     THEN [list |-> <<[cp EXCEPT !.IsLeaf = TRUE]>>, overflow |-> FALSE,
           visited |-> under \cup {hash}]
     ELSE IF dir.parent = EACCES
     THEN [list |-> <<cp>>, overflow |-> FALSE, visited |-> under \cup {hash}]
     ELSE LET parentHash == getHashFromSha256(dir.parent)
              r == ParentInit(d, parentHash, under \cup {hash})
          IN [list |-> <<[cp EXCEPT !.ParentHash = parentHash]>> \o r.list,
              overflow |-> r.overflow, visited |-> r.visited]

\* Container.init of the n-th container: initid, mountid and parent are what
\* reading its three files yields.  Parents is <<>> for a nil *list.List and
\* <<list>> for a list.
ContainerInitMain(n, d, initid, mountid, parent) ==
  LET c0 == [ID |-> ContainerID(n), InitID |-> <<>>, MountID |-> <<>>,
             Parents |-> <<>>, InitDiffSize |-> 0, MountDiffSize |-> 0]
      c1 == [c0 EXCEPT !.InitID = initid]
      c2 == [c1 EXCEPT !.MountID = mountid]
      ms == calculateFolderSize(mountid)
      c3 == [c2 EXCEPT !.MountDiffSize = ms.size]
      is == calculateFolderSize(initid)
      c4 == [c3 EXCEPT !.InitDiffSize = is.size]
      r == ParentInit(d, getHashFromSha256(parent), {})
      none == [c |-> c0, err |-> "IOError", overflow |-> FALSE, visited |-> {}]
  IN IF IsErrno(initid) THEN none
     ELSE IF IsErrno(mountid) THEN [none EXCEPT !.c = c1]
     ELSE IF ms.err # Nil THEN [none EXCEPT !.c = c2, !.err = ms.err]
     ELSE IF is.err # Nil THEN [none EXCEPT !.c = c3, !.err = is.err]
     ELSE IF IsErrno(parent) THEN [none EXCEPT !.c = c4]
     ELSE [c |-> [c4 EXCEPT !.Parents = <<r.list>>], err |-> Nil,
           overflow |-> r.overflow, visited |-> r.visited]

\* the lines main prints
Line(line, arg, num) == [line |-> line, arg |-> arg, num |-> num]
Orphaned == "Diff %s is orphaned!"
NoUnused == "No unused layers detected!"

\* main up to the loop over the containers: getCurrentContainers
MainStart ==
  /\ mpc = "start"
  /\ \E lsFails \in BOOLEAN, n \in 0..MaxContainers :
       IF lsFails
       THEN /\ mpc' = "exit 2"
            /\ UNCHANGED mainContainers
       ELSE /\ mpc' = "containers"
            /\ mainContainers' = CleanContainers(SplitOn(LsContainers(n), "\n"))
  /\ mi' = 1
  /\ UNCHANGED <<lsDiff, allContainers, diffFolders, hasUnusedLayers, out, disk>>
  /\ UNCHANGED <<chainVars, parVars>>

\* one round of the loop over the containers: the container is stored and
\* its init runs; main does not look at what init returns
MainInitContainer ==
  /\ mpc = "containers"
  /\ mi <= Len(mainContainers)
  /\ \E initid \in {ENOENT, InitName(mi)},
        mountid \in {ENOENT, MountName(mi)},
        parent \in {ENOENT} \cup ContainerParentContents :
       \* the layer store matters when init gets to the parents
       LET early == ContainerInitMain(mi, [h \in Hex |-> NoDir],
                                      initid, mountid, parent).err # Nil
       IN \E d \in IF early THEN {disk} ELSE MainDisks :
            LET r == ContainerInitMain(mi, d, initid, mountid, parent)
            IN /\ allContainers' = Append(allContainers, r.c)
               /\ disk' = [h \in Hex |-> IF h \in r.visited THEN d[h] ELSE disk[h]]
               /\ mpc' = IF r.overflow THEN "fatal error: stack overflow" ELSE mpc
               /\ mi' = IF r.overflow THEN mi ELSE mi + 1
  /\ UNCHANGED <<lsDiff, mainContainers, diffFolders, hasUnusedLayers, out>>
  /\ UNCHANGED <<chainVars, parVars>>

\* the summary loop: for the container the map yields first,
\* container.Parents.Len() dereferences a nil list, and with a list the
\* assertion e.Value.(ContainerParent) meets the *ContainerParent that was
\* pushed
MainSummary ==
  /\ mpc = "containers"
  /\ mi > Len(mainContainers)
  /\ IF allContainers = <<>>
     THEN /\ mpc' = "diff"
          /\ UNCHANGED out
     ELSE \E k \in 1..Len(allContainers) :
            LET container == allContainers[k]
                head == <<Line("Statistics for continer: %s", container.ID, 0)>>
            IN IF container.Parents = <<>>
               THEN /\ mpc' = "panic: nil pointer dereference"
                    /\ out' = out \o head
               ELSE /\ mpc' = "panic: interface conversion"
                    /\ out' = out \o head \o
                         <<Line("- %d layers", <<>>, Len(container.Parents[1])),
                           Line("- init diff location: %s", container.InitID, 0),
                           Line("- init diff size: %d", <<>>, container.InitDiffSize),
                           Line("- mount diff location: %s", container.MountID, 0),
                           Line("- mount diff size: %d", <<>>, container.MountDiffSize),
                           Line("Layers statistics:", <<>>, 0)>>
  /\ UNCHANGED <<lsDiff, mainContainers, allContainers, diffFolders, mi,
                 hasUnusedLayers, disk>>
  /\ UNCHANGED <<chainVars, parVars>>

\* getCurrentDiffFolders
MainDiffFolders ==
  /\ mpc = "diff"
  /\ \E lsFails \in BOOLEAN :
       IF lsFails
       THEN /\ mpc' = "log.Fatal"
            /\ UNCHANGED diffFolders
       ELSE /\ mpc' = "orphans"
            /\ diffFolders' = ProcessDiffFolders(SplitOn(lsDiff, "\n"))
  /\ mi' = 1
  /\ hasUnusedLayers' = FALSE
  /\ UNCHANGED <<lsDiff, mainContainers, allContainers, out, disk>>
  /\ UNCHANGED <<chainVars, parVars>>

\* one round of the loop over diffFolders.  The loop over allContainers
\* ends at the first container the map yields: found by its InitID or
\* MountID, or else a panic on its Parents as in the summary loop.
MainOrphanStep ==
  /\ mpc = "orphans"
  /\ mi <= Len(diffFolders)
  /\ LET folder == diffFolders[mi]
         report == /\ out' = Append(out, Line(Orphaned, folder, 0))
                   /\ hasUnusedLayers' = TRUE
                   /\ mi' = mi + 1
                   /\ mpc' = mpc
     IN IF allContainers = <<>>
        THEN report
        ELSE \E k \in 1..Len(allContainers) :
               LET container == allContainers[k]
               IN IF folder = container.InitID \/ folder = container.MountID
                  THEN /\ mi' = mi + 1
                       /\ UNCHANGED <<mpc, out, hasUnusedLayers>>
                  ELSE /\ mpc' = IF container.Parents = <<>>
                                 THEN "panic: nil pointer dereference"
                                 ELSE "panic: interface conversion"
                       /\ UNCHANGED <<mi, out, hasUnusedLayers>>
  /\ UNCHANGED <<lsDiff, mainContainers, allContainers, diffFolders, disk>>
  /\ UNCHANGED <<chainVars, parVars>>

\* the last lines of main
MainFinalAlways ==
  /\ mpc = "orphans"
  /\ mi > Len(diffFolders)
  /\ out' = Append(out, Line(NoUnused, <<>>, 0))
  /\ mpc' = "done"
  /\ UNCHANGED <<lsDiff, mainContainers, allContainers, diffFolders, mi,
                 hasUnusedLayers, disk>>
  /\ UNCHANGED <<chainVars, parVars>>
MainFinal ==
  /\ mpc = "orphans"
  /\ mi > Len(diffFolders)
  /\ out' = IF hasUnusedLayers = FALSE
            THEN Append(out, Line(NoUnused, <<>>, 0))
            ELSE out
  /\ mpc' = "done"
  /\ UNCHANGED <<lsDiff, mainContainers, allContainers, diffFolders, mi,
                 hasUnusedLayers, disk>>
  /\ UNCHANGED <<chainVars, parVars>>

\* main starts on a host with any diff directory
InitMain ==
  /\ ChainInit
  /\ \E listing \in LsOutputs : MainInit(listing)
  /\ ParInit
  /\ sequential = TRUE

NextMain ==
  \/ MainStart
  \/ MainInitContainer
  \/ MainSummary
  \/ MainDiffFolders
  \/ MainOrphanStep
  \/ MainFinal

SpecMain == InitMain /\ [][NextMain]_vars

\* getCurrentDiffFolders and the orphan report on any list of folder names:
\* main on a host without containers, from line 152 on
FolderNames == {<<".">>, <<".", ".">>, <<"l">>, <<>>, <<"k", "a">>, <<"o">>}
FolderLists == UNION {[1..n -> FolderNames] : n \in 1..MaxFolders}
\* the output of ls that strings.Split turns into the list
RECURSIVE JoinLines(_)
JoinLines(list) ==
  IF Len(list) = 1 THEN list[1]
  ELSE list[1] \o <<"\n">> \o JoinLines(Tail(list))

InitFilter ==
  /\ ChainInit
  /\ ParInit
  /\ sequential = TRUE
  /\ mpc = "diff"
  /\ \E list \in FolderLists : lsDiff = JoinLines(list)
  /\ mainContainers = <<>>
  /\ allContainers = <<>>
  /\ diffFolders = <<>>
  /\ mi = 1
  /\ hasUnusedLayers = FALSE
  /\ out = <<>>

NextFilter ==
  \/ MainDiffFolders
  \/ MainOrphanStep
  \/ MainFinal

SpecFilter == InitFilter /\ [][NextFilter]_vars

----------------------------------------------------------------------------
\* Two calls of NewContainerLayer, each taken apart into the lookup in
\* ExistingLayers and what follows it.  The program makes its calls one
\* after the other (sequential); run from two goroutines they interleave,
\* and the Go runtime may end the program when a write of the map overlaps
\* another access of it.

\* the other caller
Other(t) == CHOOSE u \in Threads : u # t
\* the next step of caller u reads or writes ExistingLayers
AtMap(u) == threads[u].pc \in {"lookup", "insert"}
\* the program has ended with a fatal error of the runtime
ParFatal == \E t \in Threads : threads[t].pc \notin {"idle", "lookup", "hit", "insert", "done"}
\* what the callers leave alone
ParFrame ==
  UNCHANGED <<disk, idx, cur, stack, ret, containers, skipped, last, reads,
              sequential, mainVars>>

\* the call and the first lines of NewContainerLayer: the digest is cut out
\* of the argument
ParCall(t) ==
  /\ ~ParFatal
  /\ threads[t].pc = "idle"
  /\ sequential => \A u \in Threads : u < t => threads[u].pc = "done"
  /\ \E sha256hash \in {Sha(h) : h \in Hex} \cup Hex \cup {TwoColons},
        container \in {NoContainer} \cup (1..MaxContainers) :
       threads' = [threads EXCEPT ![t] = [NoCall EXCEPT
                                            !.pc = "lookup",
                                            !.hash = NormalizeHash(sha256hash),
                                            !.container = container]]
  /\ UNCHANGED <<heap, ExistingLayers, calls>>
  /\ ParFrame

\* value, exists := ExistingLayers[sha256hash]
ParLookupMiss(t) ==
  /\ ~ParFatal
  /\ threads[t].pc = "lookup"
  /\ threads' = [threads EXCEPT ![t].pc = "insert"]
  /\ UNCHANGED <<heap, ExistingLayers, calls>>
  /\ ParFrame
ParLookup(t) ==
  /\ ~ParFatal
  /\ threads[t].pc = "lookup"
  /\ \E fatal \in {FALSE, threads[Other(t)].pc = "insert"} :
       threads' =
         IF fatal
         THEN [threads EXCEPT ![t].pc = "fatal error: concurrent map read and map write"]
         ELSE IF threads[t].hash \in DOMAIN ExistingLayers
         THEN [threads EXCEPT ![t].pc = "hit",
                              ![t].value = ExistingLayers[threads[t].hash]]
         ELSE [threads EXCEPT ![t].pc = "insert"]
  /\ UNCHANGED <<heap, ExistingLayers, calls>>
  /\ ParFrame

\* the branch taken when the digest was found
ParHit(t) ==
  /\ ~ParFatal
  /\ threads[t].pc = "hit"
  /\ LET value == threads[t].value
     IN /\ heap' = [heap EXCEPT ![value] = HitLayer(heap[value], threads[t].container)]
        /\ threads' = [threads EXCEPT ![t].pc = "done", ![t].ret = value]
        /\ calls' = Append(calls, [arg |-> threads[t].hash,
                                   container |-> threads[t].container,
                                   ret |-> value, fresh |-> FALSE])
  /\ UNCHANGED ExistingLayers
  /\ ParFrame

\* the branch taken when it was not: the layer is made and stored
ParInsert(t) ==
  /\ ~ParFatal
  /\ threads[t].pc = "insert"
  /\ \E fatal \in {FALSE, AtMap(Other(t))} :
       IF fatal
       THEN /\ threads' = [threads EXCEPT ![t].pc =
                             IF threads[Other(t)].pc = "insert"
                             THEN "fatal error: concurrent map writes"
                             ELSE "fatal error: concurrent map read and map write"]
            /\ UNCHANGED <<heap, ExistingLayers, calls>>
       ELSE LET hash == threads[t].hash
                layer == Len(heap) + 1
            IN /\ heap' = Append(heap, FreshLayer(hash, threads[t].container))
               /\ ExistingLayers' =
                    [k \in DOMAIN ExistingLayers \cup {hash} |->
                       IF k = hash THEN layer ELSE ExistingLayers[k]]
               /\ threads' = [threads EXCEPT ![t].pc = "done", ![t].ret = layer]
               /\ calls' = Append(calls, [arg |-> hash,
                                          container |-> threads[t].container,
                                          ret |-> layer, fresh |-> TRUE])
  /\ ParFrame

InitPar ==
  /\ ChainInit
  /\ MainInit(<<>>)
  /\ ParInit
  /\ sequential \in BOOLEAN

NextPar ==
  \/ \E t \in Threads : ParCall(t)
  \/ \E t \in Threads : ParLookup(t)
  \/ \E t \in Threads : ParHit(t)
  \/ \E t \in Threads : ParInsert(t)

SpecPar == InitPar /\ [][NextPar]_vars

----------------------------------------------------------------------------
\* Vocabulary of the properties

Ptrs == 1..Len(heap)
CallIds == 1..Len(calls)
HasColon(str) == \E i \in 1..Len(str) : str[i] = ":"
\* the NewContainerLayer calls so far whose argument names the digest hash
CallsFor(hash) == {i \in CallIds : NormalizeHash(calls[i].arg) = hash}
\* a file that exists and whose contents ioutil.ReadFile returns
Readable(file) == file \notin {Unread, ENOENT, EACCES}
\* a size file that is empty or holds an integer
SizeRecord(file) == Readable(file) /\ (file = <<>> \/ ParseInt(file).err = Nil)
\* a value that does not split into exactly two parts on ':'
Malformed(file) == Readable(file) /\ Len(Split(file)) # 2
\* the step made is an Init on a layer (taken as a step from the state before)
InitStep == last'.op = "Init"
\* the layers met by following Parent from p, as RecursivePrintParents does,
\* stopping at a layer met before
RECURSIVE ChainFrom(_, _)
ChainFrom(p, met) ==
  IF p = NilPtr \/ p \in met THEN met ELSE ChainFrom(heap[p].Parent, met \cup {p})
Chain(p) == ChainFrom(p, {})
\* following Parent from some layer leads back to it
HeapCycle == \E p \in Ptrs : heap[p].Parent # NilPtr /\ p \in Chain(heap[p].Parent)
\* the entries GetAllContainers has returned so far, and those it skipped
Built == {containers[i].Hash : i \in 1..Len(containers)}
Skipped == {skipped[i] : i \in 1..Len(skipped)}
\* the names of the containers cs (positions in containers) whose own parent
\* file resolved to layer p, in build order
RECURSIVE HeadNames(_, _)
HeadNames(p, n) ==
  IF n = 0 THEN <<>>
  ELSE IF containers[n].ParentChain = p
       THEN Append(HeadNames(p, n - 1), containers[n].Name)
       ELSE HeadNames(p, n - 1)

----------------------------------------------------------------------------
\* C1: the registry holds exactly one ContainerLayer per digest: the entry
\* stored under key h is a node with Hash = h, no two nodes of the heap carry
\* the same Hash, every node is the one registered for its Hash, and every
\* call of NewContainerLayer so far returned the node that is still stored
\* under its digest (a hit returned the stored node, nothing was replaced).
C1_OneLayerPerDigest ==
  /\ \A k \in DOMAIN ExistingLayers :
       ExistingLayers[k] \in Ptrs /\ heap[ExistingLayers[k]].Hash = k
  /\ \A p, q \in Ptrs : heap[p].Hash = heap[q].Hash => p = q
  /\ \A p \in Ptrs : heap[p].Hash \in DOMAIN ExistingLayers
                     /\ ExistingLayers[heap[p].Hash] = p
  /\ \A i \in CallIds :
       /\ calls[i].ret \in Ptrs
       /\ ExistingLayers[heap[calls[i].ret].Hash] = calls[i].ret
       /\ ~calls[i].fresh => \E j \in 1..(i - 1) : calls[j].ret = calls[i].ret

\* a call found its digest in the registry, from a container and from GetParent
C1_Witness ==
  /\ \E i \in CallIds : ~calls[i].fresh /\ calls[i].container # NoContainer
  /\ \E i \in CallIds : ~calls[i].fresh /\ calls[i].container = NoContainer

\* C2: structural sharing: when a digest D was first resolved for container A
\* and next for container B (these being the only two calls naming D so far),
\* both calls returned the same node, which has SharedCount = 2 and
\* Containers = [A.name, B.name].
C2_StructuralSharing ==
  \A i, j \in CallIds :
    ( /\ i < j
      /\ calls[i].arg = calls[j].arg
      /\ calls[i].fresh
      /\ calls[i].container # NoContainer
      /\ calls[j].container # NoContainer
      /\ CallsFor(NormalizeHash(calls[i].arg)) = {i, j} )
    => /\ calls[i].ret = calls[j].ret
       /\ heap[calls[j].ret].SharedCount = 2
       /\ heap[calls[j].ret].Containers =
            <<Name(calls[i].container), Name(calls[j].container)>>

C2_Witness ==
  \E i, j \in CallIds :
    /\ i < j
    /\ calls[i].arg = calls[j].arg
    /\ calls[i].fresh
    /\ calls[i].container # NoContainer
    /\ calls[j].container # NoContainer
    /\ CallsFor(NormalizeHash(calls[i].arg)) = {i, j}
    /\ calls[i].container # calls[j].container

\* C3: a NewContainerLayer call with a nil container adds exactly 1 to the
\* SharedCount of the node it resolves to (a new node starts at 1 with no
\* containers), leaves that node's Containers as they were, and changes the
\* SharedCount and Containers of no other node; nodes other than the caller
\* running Init and the resolved node are not touched at all.
C3_NilContainerCall ==
  [][ ( /\ Len(calls') = Len(calls) + 1
        /\ calls'[Len(calls')].container = NoContainer )
      => LET call == calls'[Len(calls')]
             p == call.ret
         IN /\ IF call.fresh
               THEN /\ Len(heap') = Len(heap) + 1
                    /\ p = Len(heap')
                    /\ heap'[p].SharedCount = 1
                    /\ heap'[p].Containers = <<>>
               ELSE /\ Len(heap') = Len(heap)
                    /\ p \in Ptrs
                    /\ heap'[p].SharedCount = heap[p].SharedCount + 1
                    /\ heap'[p].Containers = heap[p].Containers
                    /\ heap'[p].Hash = heap[p].Hash
            /\ \A q \in Ptrs \ {p} :
                 /\ heap'[q].SharedCount = heap[q].SharedCount
                 /\ heap'[q].Containers = heap[q].Containers
                 /\ q # Top.self => heap'[q] = heap[q]
            /\ \A k \in DOMAIN ExistingLayers : ExistingLayers'[k] = ExistingLayers[k]
    ]_vars

\* the last call had no container and resolved to a node that carries
\* container names
C3_Witness ==
  /\ calls # <<>>
  /\ calls[Len(calls)].container = NoContainer
  /\ ~calls[Len(calls)].fresh
  /\ heap[calls[Len(calls)].ret].Containers # <<>>

\* C4: reference accounting: the SharedCount of every node is the number of
\* NewContainerLayer calls so far that named its digest, at least 1, and the
\* length of its Containers is the number of those calls that carried a
\* container, at most SharedCount.
C4_ReferenceAccounting ==
  \A p \in Ptrs :
    /\ heap[p].SharedCount = Cardinality(CallsFor(heap[p].Hash))
    /\ heap[p].SharedCount >= 1
    /\ Len(heap[p].Containers) =
         Cardinality({i \in CallsFor(heap[p].Hash) : calls[i].container # NoContainer})
    /\ Len(heap[p].Containers) <= heap[p].SharedCount

\* a node resolved three times, by containers and by a parent resolution
C4_Witness ==
  \E p \in Ptrs :
    /\ heap[p].SharedCount = 3
    /\ Len(heap[p].Containers) = 2

\* C5: identifier normalization: a call with "h" and a call with "sha256:h"
\* (h without ':'), in whichever order they were made, returned the same
\* node, and that node is the registry entry of key h.
C5_Normalization ==
  \A i, j \in CallIds :
    (~HasColon(calls[i].arg) /\ calls[j].arg = Sha(calls[i].arg))
    => /\ calls[i].ret = calls[j].ret
       /\ calls[i].arg \in DOMAIN ExistingLayers
       /\ ExistingLayers[calls[i].arg] = calls[j].ret
       /\ Sha(calls[i].arg) \notin DOMAIN ExistingLayers

\* "sha256:h", then "h", then "sha256:h" again: both orders in one run
C5_Witness ==
  \E i, j, k \in CallIds :
    /\ i < j /\ j < k
    /\ calls[i].arg # <<>>
    /\ ~HasColon(calls[j].arg)
    /\ calls[i].arg = Sha(calls[j].arg)
    /\ calls[k].arg = calls[i].arg

\* C6: leaf termination: an Init that returned on a layer whose cache-id and
\* size files are readable and whose parent file is absent returned nil and
\* left Parent nil.
C6_LeafTermination ==
  ( /\ last.op = "Init"
    /\ last.returned
    /\ Readable(DirOf(heap[last.self].Hash).cache)
    /\ SizeRecord(DirOf(heap[last.self].Hash).size)
    /\ DirOf(heap[last.self].Hash).parent = ENOENT )
  => /\ last.err = Nil
     /\ heap[last.self].Parent = NilPtr

\* C7: malformed parent pointer: an Init whose GetParent read a parent file
\* that does not split into exactly two parts returned MalformedIdentifier.
C7_MalformedParentFails ==
  (last.op = "Init" /\ last.returned /\ Malformed(last.parent))
  => last.err = "MalformedIdentifier"

\* C8: no node for an unparseable parent pointer: a step in which GetParent
\* read a parent file that does not split into exactly two parts leaves the
\* registry and the set of nodes as they were, changes no SharedCount and
\* leaves the Parent of the layer nil.
C8_NoNodeForMalformedParent ==
  [][ (InitStep /\ Malformed(last'.parent))
      => /\ last'.parentErr = "MalformedIdentifier"
         /\ ExistingLayers' = ExistingLayers
         /\ Len(heap') = Len(heap)
         /\ \A p \in Ptrs : /\ heap'[p].SharedCount = heap[p].SharedCount
                            /\ heap'[p].Containers = heap[p].Containers
                            /\ heap'[p].Parent = heap[p].Parent
         /\ heap'[last'.self].Parent = NilPtr
         /\ calls' = calls
    ]_vars

\* GetParent has read a parent file with no ':' and one with two ':'
C8_Witness ==
  /\ last.op = "Init"
  /\ Malformed(last.parent)
  /\ \E h \in Hex : disk[h].parent = NoColon
  /\ \E h \in Hex : disk[h].parent = TwoColons

\* C9: empty size record: an Init that read an empty size file got no error
\* from ReadSize, has Size = -100 and went on to GetParent.
C9_EmptySizeAbsorbed ==
  (last.op = "Init" /\ last.size = <<>>)
  => /\ last.sizeErr = Nil
     /\ heap[last.self].Size = -100
     /\ last.parent # Unread

\* C10: NewContainerLayer with more than one ':' in its argument fails: no
\* such call returned a node and no registry entry exists for the argument.
C10_TwoSeparatorsFail ==
  \A i \in CallIds :
    Len(Split(calls[i].arg)) > 2
    => /\ calls[i].ret = NilPtr
       /\ calls[i].arg \notin DOMAIN ExistingLayers

\* C12: enumeration tolerance: every return of a Container.Init moves
\* GetAllContainers to the next entry, appending the container when the
\* error is nil and skipping it otherwise; between two builds every entry
\* walked so far is either returned or skipped, both in enumeration order.
C12_EnumerationTolerance ==
  /\ [](/\ \A i, j \in 1..Len(containers) :
             i < j => containers[i].Hash < containers[j].Hash
        /\ \A i, j \in 1..Len(skipped) : i < j => skipped[i] < skipped[j]
        /\ Built \cap Skipped = {}
        /\ cur = <<>> => Built \cup Skipped = 1..(idx - 1))
  /\ [][ (last'.op \in {"ContainerInit", "ContainerInitReturn"} /\ last'.returned)
         => /\ idx' = idx + 1
            /\ cur' = <<>>
            /\ last'.err = Nil =>
                 /\ Len(containers') = Len(containers) + 1
                 /\ containers'[Len(containers')].Hash = idx
                 /\ SubSeq(containers', 1, Len(containers)) = containers
                 /\ skipped' = skipped
            /\ last'.err # Nil =>
                 /\ containers' = containers
                 /\ skipped' = Append(skipped, idx)
     ]_vars

\* the walk is over, the first entry failed in the chain build and a later
\* one was returned
C12_Witness ==
  /\ idx = MaxContainers + 1
  /\ skipped # <<>>
  /\ skipped[1] = 1
  /\ containers # <<>>
  /\ \E k \in CallIds : calls[k].container = 1

\* C13: a container whose build failed is not returned and left no trace in
\* the registry: no layer lists its name and no NewContainerLayer call was
\* made for it.
C13_FailedContainerLeavesNoTrace ==
  \A c \in Skipped :
    /\ c \notin Built
    /\ \A p \in Ptrs : Name(c) \notin Elems(heap[p].Containers)
    /\ \A k \in CallIds : calls[k].container # c

\* C14: NotFound precedes all other work: a Container.Init for which docker
\* inspect returns zero records returns the NotFound error, leaves heap,
\* registry, disk and call history as they were, starts no chain build, and
\* the enumeration goes on with the next entry.
C14_NotFoundAbortsOnlyThatContainer ==
  [][ (last'.op = "ContainerInit" /\ last'.details = "NotFound")
      => /\ last'.err = "NotFound"
         /\ heap' = heap
         /\ ExistingLayers' = ExistingLayers
         /\ disk' = disk
         /\ calls' = calls
         /\ reads' = reads
         /\ stack' = <<>>
         /\ cur' = <<>>
         /\ containers' = containers
         /\ skipped' = Append(skipped, idx)
         /\ idx' = idx + 1
    ]_vars

\* a NotFound container between a built one and the rest of the walk
C14_Witness ==
  /\ last.op = "ContainerInit"
  /\ last.details = "NotFound"
  /\ containers # <<>>
  /\ heap # <<>>

\* right after exactly two containers were walked and both were built
TwoBuilt == cur = <<>> /\ Len(containers) = 2 /\ skipped = <<>>
\* the layers in the chains of both
SharedLayers == Chain(containers[1].ParentChain) \cap Chain(containers[2].ParentChain)

C16_AtMostOnceInit ==
  \A h \in DOMAIN reads : reads[h].size <= 1 /\ reads[h].parent <= 1

\* C17: size is never silently zero: every layer in the chain of a returned
\* container has the size parsed from its size file, or -100.
C17_SizeNeverSilentlyZero ==
  \A i \in 1..Len(containers) :
    \A p \in Chain(containers[i].ParentChain) :
      \/ heap[p].Size = -100
      \/ /\ Readable(DirOf(heap[p].Hash).size)
         /\ ParseInt(DirOf(heap[p].Hash).size).err = Nil
         /\ heap[p].Size = ParseInt(DirOf(heap[p].Hash).size).val

\* C18: a required record failing anywhere in the chain fails the build: no
\* returned container has a layer in its chain whose cache-id or size file
\* is missing or unreadable.
C18_RequiredRecordFailsBuild ==
  \A i \in 1..Len(containers) :
    \A p \in Chain(containers[i].ParentChain) :
      /\ Readable(DirOf(heap[p].Hash).cache)
      /\ Readable(DirOf(heap[p].Hash).size)

\* C19 as claimed: once the chain builder has followed a cycle of parent
\* pointers, the Init/GetParent recursion does not return.
C19_CycleNeverReturns ==
  HeapCycle => stack # <<>>

\* C19 amended: the recursion is bounded also on cyclic metadata: an Init on
\* a layer whose Parent is already set returns without reading the size or
\* the parent file, no layer is under Init more than twice at a time, and
\* the depth never exceeds the number of registered digests plus one.
C19_CycleBounded ==
  /\ [](/\ Len(stack) <= Cardinality(DOMAIN ExistingLayers) + 1
        /\ \A p \in Ptrs :
             Cardinality({i \in 1..Len(stack) : stack[i].self = p}) <= 2)
  /\ [][ (InitStep /\ heap[last'.self].Parent # NilPtr)
         => /\ last'.returned
            /\ stack' = Pop
            /\ calls' = calls
            /\ reads' = reads
            /\ last'.size = Unread /\ last'.parent = Unread
     ]_vars

\* a container was returned whose chain runs into a cycle of two layers
C19_Witness ==
  /\ HeapCycle
  /\ stack = <<>>
  /\ containers # <<>>
  /\ \E p \in Ptrs : heap[p].Parent # NilPtr /\ heap[p].Parent # p
                     /\ heap[heap[p].Parent].Parent = p

\* main has run through its container loop and ended, by returning or by
\* a panic, and each init had returned nil
MainRan ==
  /\ mpc \in {"done", "panic: nil pointer dereference",
              "panic: interface conversion"}
  /\ \A k \in 1..Len(allContainers) : allContainers[k].Parents # <<>>
\* the filtered inventory of the diff directory
Inventory == Elems(ProcessDiffFolders(SplitOn(lsDiff, "\n")))
\* folder is the InitID or MountID of no container and the CacheID of no
\* layer in a container's parent list
Unreachable(folder) ==
  \A k \in 1..Len(allContainers) :
    LET container == allContainers[k]
    IN /\ folder # container.InitID
       /\ folder # container.MountID
       /\ \A e \in 1..Len(container.Parents[1]) :
            container.Parents[1][e].CacheID # folder
Reported(folder) == \E i \in 1..Len(out) : out[i] = Line(Orphaned, folder, 0)

\* C11: orphan correctness: when main has ended after every container was
\* initialised, a folder of the filtered inventory of the diff directory has
\* been reported as orphaned exactly if it is the InitID and MountID of no
\* container and the CacheID of no layer of a parent list.
C11_OrphanCorrectness ==
  MainRan => \A folder \in Inventory : Reported(folder) <=> Unreachable(folder)

\* the lines of the orphan report
OrphanLines == {i \in 1..Len(out) : out[i].line = Orphaned}
FinalLines == {i \in 1..Len(out) : out[i].line = NoUnused}

\* C20: final report line: while main is in the orphan check the line "No
\* unused layers detected!" has not been printed and hasUnusedLayers tells
\* whether a folder was reported; when main has returned the output holds
\* either at least one "Diff ... is orphaned!" line or, as its last line and
\* once, "No unused layers detected!", and never both.
C20_FinalReportLine ==
  /\ mpc = "orphans" => /\ FinalLines = {}
                        /\ hasUnusedLayers <=> OrphanLines # {}
  /\ mpc = "done" => /\ Cardinality(FinalLines) <= 1
                     /\ FinalLines \subseteq {Len(out)}
                     /\ FinalLines # {} <=> OrphanLines = {}

\* main has returned after reporting two orphans out of a listing that also
\* held the bookkeeping folder "l"
C20_Witness ==
  /\ mpc = "done"
  /\ Cardinality(OrphanLines) = 2
  /\ FinalLines = {}
  /\ <<"l">> \in Listed

\* the digest the parent file of layer hash points to, as GetParent reads
\* it, in <<>>; <<>> for a file that is absent, unreadable or malformed
DiskParent(hash) ==
  LET file == DirOf(hash).parent
  IN IF Readable(file) /\ Len(Split(file)) = 2
     THEN <<NormalizeHash(Split(file)[2])>>
     ELSE <<>>
\* the on-disk parent chain from layer hash: its length, and whether it
\* leads back into itself
RECURSIVE DiskChainFrom(_, _)
DiskChainFrom(hash, met) ==
  IF hash \in met THEN [len |-> Cardinality(met), cyclic |-> TRUE]
  ELSE IF DiskParent(hash) = <<>>
       THEN [len |-> Cardinality(met) + 1, cyclic |-> FALSE]
       ELSE DiskChainFrom(DiskParent(hash)[1], met \cup {hash})
DiskAcyclic == \A h \in Hex : ~DiskChainFrom(h, {}).cyclic
\* GetAllContainers has walked every entry
Finished == idx = MaxContainers + 1 /\ cur = <<>> /\ stack = <<>>

\* C21: termination on well-formed metadata: every Container.Init that has
\* started returns and GetAllContainers gets to the end of the listing,
\* whatever the on-disk parent relation is (the acyclic ones included); and
\* while the relation is acyclic, the depth of the Init/GetParent recursion
\* is at most the length of the on-disk parent chain of the head layer.
C21_Termination ==
  /\ <>Finished
  /\ (cur # <<>>) ~> (cur = <<>>)
  /\ [](DiskAcyclic /\ stack # <<>>
          => Len(stack) <= DiskChainFrom(heap[stack[1].self].Hash, {}).len)

\* the walk is over on an acyclic layer store, and a container was returned
\* whose chain has two layers
C21_Witness ==
  /\ Finished
  /\ DiskAcyclic
  /\ \E i \in 1..Len(containers) :
       Cardinality(Chain(containers[i].ParentChain)) = 2

\* following Parent from p reaches nil without meeting a layer twice, so
\* that RecursivePrintParents(p) returns
RECURSIVE WalkEnds(_, _)
WalkEnds(p, met) ==
  IF p = NilPtr THEN TRUE
  ELSE IF p \in met THEN FALSE
  ELSE WalkEnds(heap[p].Parent, met \cup {p})
\* the Parent of every layer that has one is the registry node of the
\* digest in the layer's parent file
ParentsAsOnDisk ==
  \A n \in Ptrs :
    heap[n].Parent # NilPtr =>
      /\ DiskParent(heap[n].Hash) = <<heap[heap[n].Parent].Hash>>
      /\ heap[heap[n].Parent].Hash \in DOMAIN ExistingLayers
      /\ ExistingLayers[heap[heap[n].Parent].Hash] = heap[n].Parent

\* C22 as claimed: in every state the Parent of a layer is the registry node
\* of the digest in its parent file, and following Parent from the
\* ParentChain of a returned container reaches nil without a revisit.
C22_ParentChainIntegrityAsClaimed ==
  /\ ParentsAsOnDisk
  /\ \A i \in 1..Len(containers) : WalkEnds(containers[i].ParentChain, {})

\* C22 amended: in every state the Parent of a layer is the registry node of
\* the digest in its parent file; following Parent from the ParentChain of
\* a returned container reaches nil without a revisit when the on-disk
\* parent chain of its head layer does not lead back into itself.
C22_ParentChainIntegrity ==
  /\ ParentsAsOnDisk
  /\ \A i \in 1..Len(containers) :
       ~DiskChainFrom(heap[containers[i].ParentChain].Hash, {}).cyclic
         => WalkEnds(containers[i].ParentChain, {})

\* a returned container whose head layer has the parent its parent file
\* names, which is a root layer
C22_Witness ==
  \E i \in 1..Len(containers) :
    LET head == containers[i].ParentChain
    IN /\ heap[head].Parent # NilPtr
       /\ heap[head].Parent # head
       /\ heap[heap[head].Parent].Parent = NilPtr
       /\ DirOf(heap[head].Hash).parent = Sha(heap[heap[head].Parent].Hash)
       /\ DirOf(heap[heap[head].Parent].Hash).parent = ENOENT

\* the step is the first half of Container.Init for a container whose
\* parent file names a digest that the registry holds with a Parent
HeadHitStep ==
  /\ last'.op = "ContainerInit"
  /\ ~last'.returned
  /\ ~calls'[Len(calls')].fresh
  /\ heap[calls'[Len(calls')].ret].Parent # NilPtr
\* the step is the Init of the head layer of a container, and the layer has
\* a Parent
HeadSkipStep ==
  /\ InitStep
  /\ Len(stack) = 1
  /\ heap[Top.self].Parent # NilPtr

\* C23: skip of re-initialization: when a container is built whose head
\* digest is in the registry with a non-nil Parent, NewContainerLayer adds 1
\* to the head's SharedCount and appends the container's name to its
\* Containers and changes nothing else in the registry; the Init of the head
\* then returns nil at once: it changes no layer, reads no size or parent
\* file and resolves no ancestor.
C23_SkipReinitialization ==
  /\ [][ HeadHitStep =>
           LET head == calls'[Len(calls')].ret
           IN /\ heap' = [heap EXCEPT
                            ![head].SharedCount = @ + 1,
                            ![head].Containers = Append(@, Name(idx))]
              /\ ExistingLayers' = ExistingLayers
              /\ cur'[1].ParentChain = head
       ]_vars
  /\ [][ HeadSkipStep =>
           /\ heap' = heap
           /\ ExistingLayers' = ExistingLayers
           /\ calls' = calls
           /\ reads' = reads
           /\ last'.size = Unread /\ last'.parent = Unread
           /\ last'.returned /\ last'.err = Nil
           /\ stack' = <<>>
       ]_vars

\* the Init of a shared head layer that has a Parent has just returned
C23_Witness ==
  /\ last.op = "Init"
  /\ last.returned
  /\ last.size = Unread
  /\ stack = <<>>
  /\ cur # <<>>
  /\ heap[cur[1].ParentChain].Parent # NilPtr
  /\ heap[cur[1].ParentChain].SharedCount = 2
  /\ heap[cur[1].ParentChain].Containers = <<"web", "api">>

\* two layers of one digest
Split2(p, q) == p # q /\ heap[p].Hash = heap[q].Hash

\* C24: unguarded parallel resolution can split a node: two layers of one
\* digest exist only when the two calls were not made one after the other;
\* they are then the layers the two calls returned, both calls missed the
\* lookup, each layer has SharedCount = 1 and the registry holds one of them.
C24_SplitOnlyWhenInterleaved ==
  \A p, q \in Ptrs :
    Split2(p, q) =>
      /\ ~sequential
      /\ {p, q} = {threads[t].ret : t \in Threads}
      /\ \A k \in CallIds : calls[k].fresh
      /\ heap[p].SharedCount = 1
      /\ heap[q].SharedCount = 1
      /\ ExistingLayers[heap[p].Hash] \in {p, q}

\* both calls, for one new digest and from two containers, have returned,
\* and each made a layer of its own
C24_Witness ==
  /\ \A t \in Threads : threads[t].pc = "done"
  /\ threads[1].hash = threads[2].hash
  /\ threads[1].container # NoContainer
  /\ threads[2].container # NoContainer
  /\ Split2(threads[1].ret, threads[2].ret)
  /\ heap[threads[1].ret].SharedCount = 1
  /\ heap[threads[2].ret].SharedCount = 1

\* the list handed to ProcessDiffFolders, the four names of the claim and
\* the positions of the list that hold none of them
FilterInput == SplitOn(lsDiff, "\n")
FourNames == {<<".">>, <<".", ".">>, <<"l">>, <<>>}
KeptAt == {i \in 1..Len(FilterInput) : FilterInput[i] \notin FourNames}
\* the j-th of these positions
NthKept(j) == CHOOSE i \in KeptAt : Cardinality({k \in KeptAt : k <= i}) = j

\* C25: bookkeeping entries are filtered before comparison: what
\* ProcessDiffFolders returns is its input without the entries ".", "..",
\* "l" and "", every other entry at its place in the original order, as
\* often as it occurs; and no orphan line names one of the four.
C25_BookkeepingFiltered ==
  /\ mpc \in {"orphans", "done"} =>
       /\ Len(diffFolders) = Cardinality(KeptAt)
       /\ \A j \in 1..Len(diffFolders) : diffFolders[j] = FilterInput[NthKept(j)]
  /\ \A i \in 1..Len(out) : out[i].line = Orphaned => out[i].arg \notin FourNames
  /\ mpc = "done" =>
       /\ Len(out) >= Cardinality(KeptAt)
       /\ \A j \in 1..Cardinality(KeptAt) :
            out[j] = Line(Orphaned, FilterInput[NthKept(j)], 0)

\* the list o, l, o was filtered and o was reported twice
C25_Witness ==
  /\ mpc = "done"
  /\ FilterInput = <<<<"o">>, <<"l">>, <<"o">>>>
  /\ diffFolders = <<<<"o">>, <<"o">>>>
  /\ out = <<Line(Orphaned, <<"o">>, 0), Line(Orphaned, <<"o">>, 0)>>

\* main is past its loop over the containers
PastContainerLoop ==
  mpc \notin {"start", "exit 2", "fatal error: stack overflow"}
  /\ (mpc = "containers" => mi > Len(mainContainers))

\* C26: a container whose init fails does not abort the run: once main is
\* past the loop over the containers, every container stored in
\* allContainers has a Parents list that is not nil, and main does not end
\* in a panic.
C26_FailedInitDoesNotAbort ==
  PastContainerLoop =>
    /\ \A k \in 1..Len(allContainers) : allContainers[k].Parents # <<>>
    /\ mpc \notin {"panic: nil pointer dereference", "panic: interface conversion"}

====
